---- MODULE Spec2Model ----
(***************************************************************************)
(* A model of the content synchronisation and caching layer of the East    *)
(* Idaho News app:                                                         *)
(*   - ArchiveService  (src/src/services/archiveService.ts): the result    *)
(*     cache in front of the WordPress posts endpoint;                     *)
(*   - RealtimeService (src/unnamed/part_002): the poller, its seen-set    *)
(*     and its subscribers;                                                *)
(*   - WordPressService.getPosts (src/src/services/wordpressService.ts):   *)
(*     the category constraint of a posts request;                         *)
(*   - StoryImage (src/src/components/StoryImage.tsx): the resolution of   *)
(*     an image's candidate URLs and the loading of the candidates.        *)
(* JavaScript is single-threaded: every action below is one synchronous    *)
(* run of a handler up to its next await (or to its end).                  *)
(***************************************************************************)
EXTENDS Integers, Sequences, FiniteSets, TLC

VARIABLES
    \* ---- ArchiveService ----
    cachedStories,   \* Map<string, WordPressPost[]>: cache key -> stories
    totalStories,    \* the aggregate total counter
    isLoading,       \* the loading flag
    pending,         \* getStories calls suspended at `await fetch(...)`
    \* ---- ArchiveService, history (not program state) ----
    started,         \* number of getStories calls made so far
    requests,        \* per filter: posts requests issued since the last clearCache
    succeeded,       \* filters with a fetch completed successfully since the last clearCache
    populated,       \* per cache key: what the fetch that populated the entry returned
    lastCall,        \* the most recent getStories call, at its start
    lastReturn,      \* the most recent value a getStories call returned (for a
                     \* hit, with what populated the entry it read)
    dropped          \* cache keys the most recent clearCache dropped and no
                     \* getStories call has asked for since

archiveVars == <<cachedStories, totalStories, isLoading, pending,
                 started, requests, succeeded, populated, lastCall, lastReturn,
                 dropped>>

VARIABLES
    \* ---- RealtimeService ----
    isPolling,       \* the Polling / Stopped flag
    subscribers,     \* the callbacks, in registration order
    lastArticleIds,  \* Set<number>: the seen identifiers, in insertion order
    lastUpdateTime,  \* which statement set the timestamp last
    handles,         \* the unsubscribe closures returned so far: handle -> captured callback
    inflight,        \* pollForUpdates runs suspended at `await getPosts(10)`
    timers,          \* setTimeout callbacks scheduled and not yet fired
    \* ---- the content source ----
    latest,          \* identifier of the newest published post (0: none)
    \* ---- RealtimeService, history (not program state) ----
    lastPoll,        \* the most recent pollForUpdates run that ended
    inserted,        \* every identifier added to lastArticleIds since it was last cleared, in order
    lastStart        \* what the most recent startPolling call did

realtimeVars == <<isPolling, subscribers, lastArticleIds, lastUpdateTime, handles,
                  inflight, timers, latest, lastPoll, inserted, lastStart>>

VARIABLES
    \* ---- StoryImage ----
    image,           \* the image prop (a WordPressImage, or undefined)
    targetWidth,     \* typeof width === 'number' ? width : screenWidth * 0.9
    platformOS,      \* Platform.OS
    rendered,        \* what the last run of the component function computed
    loading,         \* useState: the image is loading
    error,           \* useState: every candidate has failed
    retryCount,      \* useState: presses of Retry
    isVisible,       \* useState: the image is to be loaded
    currentImageUrl, \* useState: the URL given to <Image>
    urlIndex,        \* useState: index of the candidate in allUrls
    shown,           \* the useState values the last run saw
    timeout,         \* the pending 5 s timer and the urlIndex its handler saw
    native           \* the load of the <Image> element: its uri and phase

imageVars == <<image, targetWidth, platformOS, rendered, loading, error, retryCount,
               isVisible, currentImageUrl, urlIndex, shown, timeout, native>>

VARIABLES
    \* ---- RealtimeService.determineUpdateType ----
    article,         \* the article being classified
    updateType       \* the type determined for it

classifyVars == <<article, updateType>>

VARIABLES
    \* ---- WordPressService.getPosts ----
    getPostsRun      \* one call of getPosts: its arguments, where it stands,
                     \* the categories parameter of its request, its result

wordpressVars == <<getPostsRun>>

VARIABLES
    \* ---- RealtimeService.notifySubscribers with callbacks that unsubscribe ----
    lastNotify       \* the last delivery: who was registered, who was called,
                     \* the handles the callbacks called

notifyVars == <<lastNotify>>

VARIABLES
    \* ---- HomeScreen ----
    home,            \* the useState values of the screen
    postsRequests    \* the loadPosts calls suspended on getPosts

homeVars == <<home, postsRequests>>

VARIABLES
    \* ---- ArchiveScreen ----
    archiveScreen,   \* the useState values of the screen
    storiesCalls     \* the loadStories calls suspended on getStories, in the
                     \* order of the requests of the service

screenVars == <<archiveScreen, storiesCalls>>

VARIABLES
    \* ---- AnalyticsService and ArticleDetailScreen ----
    articleViews,    \* AnalyticsService.articleViews: article id -> its record
    detail,          \* the ArticleDetail screen on top of the stack, if any
    presses          \* per article, the presses that opened it

viewVars == <<articleViews, detail, presses>>

VARIABLES
    \* ---- RealtimeService.checkForUpdates ----
    checks,          \* checkForUpdates calls suspended on getPosts
    lastCheck,       \* what the last checkForUpdates call returned
    wasReset         \* reset() has been called

checkVars == <<checks, lastCheck, wasReset>>

\* What an operation of one component leaves alone
notArchiveVars == <<realtimeVars, imageVars, classifyVars, wordpressVars, notifyVars, homeVars, screenVars, viewVars, checkVars>>
notRealtimeVars == <<archiveVars, imageVars, classifyVars, wordpressVars, notifyVars, homeVars, screenVars, viewVars, checkVars>>
notImageVars == <<archiveVars, realtimeVars, classifyVars, wordpressVars, notifyVars, homeVars, screenVars, viewVars, checkVars>>
notClassifyVars == <<archiveVars, realtimeVars, imageVars, wordpressVars, notifyVars, homeVars, screenVars, viewVars, checkVars>>
notWordpressVars == <<archiveVars, realtimeVars, imageVars, classifyVars, notifyVars, homeVars, screenVars, viewVars, checkVars>>
notNotifyVars == <<archiveVars, imageVars, classifyVars, wordpressVars, homeVars, screenVars, viewVars, checkVars>>
notHomeVars == <<archiveVars, realtimeVars, imageVars, classifyVars, wordpressVars, notifyVars, screenVars, viewVars, checkVars>>
notScreenVars == <<realtimeVars, imageVars, classifyVars, wordpressVars, notifyVars, homeVars, viewVars, checkVars>>
notViewVars == <<archiveVars, realtimeVars, imageVars, classifyVars, wordpressVars, notifyVars, homeVars, screenVars, checkVars>>
notCheckVars == <<archiveVars, imageVars, classifyVars, wordpressVars, notifyVars, homeVars, screenVars, viewVars>>

vars == <<archiveVars, realtimeVars, imageVars, classifyVars, wordpressVars, notifyVars, homeVars, screenVars, viewVars, checkVars>>

----------------------------------------------------------------------------
(* Bounds of the model *)

\* getStories calls made in one behaviour
MaxCalls == 3
\* stories in one server response
MaxStories == 1
\* largest X-WP-Total the server reports
MaxTotal == 2
\* subscribe calls made in one behaviour
MaxSubs == 2
\* poll chains (fetches in flight plus pending timers) alive at once
MaxChains == 2
\* posts published while the poller's lifecycle is explored
MaxPosts == 2
\* posts published while the seen-set is explored
MaxSeenPosts == 106
\* posts the content source publishes one at a time before its first burst
QuietPosts == 88
\* posts in one burst
BurstSize == 10
\* tiers in the media_details.sizes of one image
MaxTiers == 3
\* loadPosts calls of the home screen suspended at the same time
MaxLoads == 2
\* pages of posts the home screen loads
MaxPage == 2
\* presses on an article of a list in one behaviour
MaxPresses == 2
\* scroll events handled by one detail screen
MaxScrolls == 2
\* checkForUpdates calls suspended at the same time
MaxChecks == 1

----------------------------------------------------------------------------
(* Strings are sequences of one-character strings. *)

Digit(d) == CASE d = 0 -> "0" [] d = 1 -> "1" [] d = 2 -> "2" [] d = 3 -> "3"
              [] d = 4 -> "4" [] d = 5 -> "5" [] d = 6 -> "6" [] d = 7 -> "7"
              [] d = 8 -> "8" [] d = 9 -> "9"

DigitValue(c) == CASE c = "0" -> 0 [] c = "1" -> 1 [] c = "2" -> 2 [] c = "3" -> 3
                   [] c = "4" -> 4 [] c = "5" -> 5 [] c = "6" -> 6 [] c = "7" -> 7
                   [] c = "8" -> 8 [] c = "9" -> 9

\* Number.prototype.toString() of a non-negative integer
RECURSIVE NumberToString(_)
NumberToString(n) == IF n < 10 THEN <<Digit(n)>>
               ELSE NumberToString(n \div 10) \o <<Digit(n % 10)>>

\* parseInt of a string of decimal digits
RECURSIVE ParseInt(_)
ParseInt(s) == IF Len(s) = 0 THEN 0
               ELSE 10 * ParseInt(SubSeq(s, 1, Len(s) - 1)) + DigitValue(s[Len(s)])

----------------------------------------------------------------------------
(* ArchiveService *)

\* A filter after the defaults of getStories have been applied
Filter(category, search, perPage) ==
    [category |-> category, search |-> search, dateFrom |-> <<>>,
     dateTo |-> <<>>, author |-> <<>>, perPage |-> perPage]

\* The filters the callers pass: no filter at all, and two searches within a
\* category whose texts differ only in where the "-" stands
Filters == { Filter(<<>>, <<>>, 10),
             Filter(<<"a", "-">>, <<"b">>, 10),
             Filter(<<"a">>, <<"-", "b">>, 10) }

\* `${category}-${search}-${dateFrom}-${dateTo}-${author}-${perPage}`
CacheKey(f) ==
    f.category \o <<"-">> \o f.search \o <<"-">> \o f.dateFrom \o <<"-">>
      \o f.dateTo \o <<"-">> \o f.author \o <<"-">> \o NumberToString(f.perPage)

\* A response without an X-WP-Total header: headers.get() returns null,
\* which is falsy like the empty string
NoHeader == <<>>

\* The body of a response carrying n stories
Stories(n) == [i \in 1..n |-> i]

\* The 2xx answers of the posts endpoint: n stories and an optional
\* X-WP-Total header of at least n. (A non-2xx status, a network error and an
\* undecodable body all end in the catch branch: FetchStoriesFail.)

Responses ==
    { [ok |-> TRUE, stories |-> Stories(n), header |-> h] :
        <<n, h>> \in { p \in (0..MaxStories) \X ({NoHeader} \cup {NumberToString(t) : t \in 0..MaxTotal}) :
                         p[2] = NoHeader \/ ParseInt(p[2]) >= p[1] } }

\* Map.prototype.set
MapSet(map, key, value) ==
    [k \in (DOMAIN map) \cup {key} |-> IF k = key THEN value ELSE map[k]]

EmptyMap == [k \in {} |-> 0]

NoReturn == [how |-> "none"]
NoCall == [outcome |-> "none"]

ArchiveStart ==
    /\ cachedStories = EmptyMap
    /\ totalStories = 0
    /\ isLoading = FALSE
    /\ pending = <<>>
    /\ started = 0
    /\ requests = [f \in Filters |-> 0]
    /\ succeeded = {}
    /\ populated = EmptyMap
    /\ lastCall = NoCall
    /\ lastReturn = NoReturn
    /\ dropped = {}

\* The cache-hit branch of getStories: what a hit returns
HitResult(cached, total) ==
    [stories |-> cached, total |-> total, hasMore |-> Len(cached) < total]

\* getStories up to `await fetch(...)`: a hit returns at once, a miss issues
\* the posts request and suspends.
GetStories(f) ==
    /\ started < MaxCalls
    /\ started' = started + 1
    /\ dropped' = dropped \ {CacheKey(f)}
    /\ LET cacheKey == CacheKey(f) IN
       IF cacheKey \in DOMAIN cachedStories
       THEN /\ lastReturn' = [how |-> "hit", filter |-> f,
                              result |-> HitResult(cachedStories[cacheKey], totalStories),
                              entry |-> populated[cacheKey]]
            /\ lastCall' = [outcome |-> "hit", filter |-> f, priorOk |-> f \in succeeded]
            /\ UNCHANGED <<cachedStories, totalStories, isLoading, pending,
                           requests, succeeded, populated>>
       ELSE /\ isLoading' = TRUE
            /\ pending' = Append(pending, [filter |-> f, cacheKey |-> cacheKey])
            /\ requests' = [g \in DOMAIN requests |->
                               IF g = f THEN requests[g] + 1 ELSE requests[g]]
            /\ lastCall' = [outcome |-> "miss", filter |-> f, priorOk |-> f \in succeeded]
            /\ UNCHANGED <<cachedStories, totalStories, succeeded, populated, lastReturn>>

\* getStories called by a caller that keeps no state of its own
GetStoriesCall(f) == GetStories(f) /\ UNCHANGED notArchiveVars

RemoveAt(s, i) == SubSeq(s, 1, i - 1) \o SubSeq(s, i + 1, Len(s))

\* total ? parseInt(total) : stories.length
TotalOf(r) == IF r.header # NoHeader THEN ParseInt(r.header) ELSE Len(r.stories)

\* A fetch that stores its stories under the key without the page size
StoreKeyWithoutPerPage(call) ==
    LET f == call.filter
    IN f.category \o <<"-">> \o f.search \o <<"-">> \o f.dateFrom \o <<"-">>
         \o f.dateTo \o <<"-">> \o f.author

\* this.cachedStories.set(cacheKey, stories): the key a completed fetch
\* stores its stories under
StoreKey(call) == call.cacheKey

\* What getStories returns after a 2xx response
FetchedResult(r) ==
    [stories |-> r.stories, total |-> TotalOf(r), hasMore |-> Len(r.stories) < TotalOf(r)]

\* The rest of getStories after the fetch resolved with a 2xx response
StoriesFetched(i, r) ==
    LET call == pending[i]
        total == TotalOf(r)
        result == FetchedResult(r)
    IN /\ totalStories' = total
       /\ cachedStories' = MapSet(cachedStories, StoreKey(call), r.stories)
       /\ populated' = MapSet(populated, StoreKey(call), [filter |-> call.filter, result |-> result])
       /\ succeeded' = succeeded \cup {call.filter}
       /\ lastReturn' = [how |-> "fetched", filter |-> call.filter, result |-> result]
       /\ isLoading' = FALSE
       /\ pending' = RemoveAt(pending, i)
       /\ UNCHANGED <<started, requests, lastCall, dropped>>

FetchStoriesOk(i, r) == StoriesFetched(i, r) /\ UNCHANGED notArchiveVars

\* The ways the fetch of getStories fails: fetch() rejects, the response
\* has a non-2xx status, response.json() rejects. Each is an exception
\* raised inside the try block.
Failures == {"network", "status", "decode"}

\* A catch branch that throws the error on: the promise of getStories rejects
CatchRethrows(cause) == [rejected |-> cause]

\* The catch branch of getStories: what the call returns after an error
GetStoriesCatch(cause) == [stories |-> <<>>, total |-> 0, hasMore |-> FALSE]

\* A catch branch that caches the empty result under the key of the call
FailStoresEmpty(i, cause) ==
    LET call == pending[i] IN
       /\ lastReturn' = [how |-> "failed", filter |-> call.filter,
                         result |-> GetStoriesCatch(cause)]
       /\ cachedStories' = MapSet(cachedStories, call.cacheKey, <<>>)
       /\ totalStories' = 0
       /\ isLoading' = FALSE
       /\ pending' = RemoveAt(pending, i)
       /\ UNCHANGED <<started, requests, succeeded, populated, lastCall, dropped>>
       /\ UNCHANGED notArchiveVars

\* The rest of getStories after the fetch failed: the catch branch
StoriesFailed(i, cause) ==
    LET call == pending[i] IN
       /\ lastReturn' = [how |-> "failed", filter |-> call.filter,
                         result |-> GetStoriesCatch(cause)]
       /\ isLoading' = FALSE
       /\ pending' = RemoveAt(pending, i)
       /\ UNCHANGED <<cachedStories, totalStories, started, requests, succeeded,
                      populated, lastCall, dropped>>

FetchStoriesFail(i, cause) == StoriesFailed(i, cause) /\ UNCHANGED notArchiveVars

ClearCache ==
    /\ dropped' = DOMAIN cachedStories
    /\ cachedStories' = EmptyMap
    /\ totalStories' = 0
    /\ requests' = [f \in Filters |-> 0]
    /\ succeeded' = {}
    /\ populated' = EmptyMap
    /\ UNCHANGED <<isLoading, pending, started, lastCall, lastReturn>>
    /\ UNCHANGED notArchiveVars

----------------------------------------------------------------------------
(* RealtimeService: the update type of an article *)

\* 60 * 60 * 1000 ms, in minutes
OneHour == 60

Breaking == <<"b", "r", "e", "a", "k", "i", "n", "g">>
Urgent == <<"u", "r", "g", "e", "n", "t">>

\* String.prototype.toUpperCase / toLowerCase of one character
UpperChar(c) ==
    CASE c = "a" -> "A" [] c = "b" -> "B" [] c = "e" -> "E" [] c = "g" -> "G"
      [] c = "i" -> "I" [] c = "k" -> "K" [] c = "n" -> "N" [] c = "r" -> "R"
      [] c = "t" -> "T" [] c = "u" -> "U" [] OTHER -> c

LowerChar(c) ==
    CASE c = "A" -> "a" [] c = "B" -> "b" [] c = "E" -> "e" [] c = "G" -> "g"
      [] c = "I" -> "i" [] c = "K" -> "k" [] c = "N" -> "n" [] c = "R" -> "r"
      [] c = "T" -> "t" [] c = "U" -> "u" [] OTHER -> c

ToUpperCase(s) == [i \in 1..Len(s) |-> UpperChar(s[i])]

\* A lowering that leaves the text as it is
KeepCase(s) == s

ToLowerCase(s) == [i \in 1..Len(s) |-> LowerChar(s[i])]

\* The first letter in upper case, as in a headline
Capitalized(s) == <<UpperChar(s[1])>> \o SubSeq(s, 2, Len(s))

\* String.prototype.includes
Includes(s, sub) ==
    \E i \in 1..(Len(s) - Len(sub) + 1) : SubSeq(s, i, i + Len(sub) - 1) = sub

\* The words a title or a body is made of: the two keywords in three
\* spellings, two words that miss a keyword by a letter, and a plain word
Words ==
    UNION { {w, ToUpperCase(w), Capitalized(w)} : w \in {Breaking, Urgent} }
      \cup { SubSeq(Breaking, 1, 7), SubSeq(Urgent, 2, 6), <<"n", "e", "w", "s">> }

\* The rendered texts: nothing, or a word alone or within a sentence
Texts ==
    {<<>>} \cup { pre \o w \o post : pre \in {<<>>, <<"a", " ">>},
                                     w \in Words,
                                     post \in {<<>>, <<" ", "z">>, <<"s">>} }

\* Minutes between the publish time of an article and the classification
Ages == {-5, 0, 10, 59, 60, 61, 120}

Articles == [title : Texts, content : Texts, age : Ages]

\* determineUpdateType
DetermineUpdateType(a) ==
    LET title == ToLowerCase(a.title)
        content == ToLowerCase(a.content)
    IN IF \/ Includes(title, Breaking) \/ Includes(title, Urgent)
          \/ Includes(content, Breaking) \/ Includes(content, Urgent)
       THEN "breaking_news"
       ELSE IF a.age < OneHour   \* articleDate > oneHourAgo
            THEN "new_article"
            ELSE "updated_article"

NoArticle == [none |-> TRUE]

\* No article is being classified
ClassifyStart ==
    /\ article = NoArticle
    /\ updateType = "none"

\* detectNewArticles reported an article as new
ClassifyInit ==
    /\ article \in Articles
    /\ updateType = "none"

\* type: this.determineUpdateType(article)
Classify ==
    /\ updateType = "none"
    /\ updateType' = DetermineUpdateType(article)
    /\ UNCHANGED article
    /\ UNCHANGED notClassifyVars

----------------------------------------------------------------------------
(* RealtimeService *)

\* wordpressService.getPosts(10) in pollForUpdates
PollCount == 10
\* lastArticleIds.size > 100
SeenThreshold == 100
\* idsArray.slice(-50)
SeenKeep == 50

\* The callbacks the UI registers; "g" throws whenever it is called. A
\* callback does not call subscribe or an unsubscribe handle while an event
\* is being delivered to it (the only subscriber of the app, HomeScreen,
\* sets component state and reloads the posts).
Callbacks == {"f", "g"}
Throws(cb) == cb = "g"

Min(a, b) == IF a < b THEN a ELSE b

\* The post of an identifier: every second post is a breaking story, every
\* third one is two hours old when it is fetched
PostOf(id) ==
    [id |-> id,
     title |-> IF id % 2 = 0 THEN Capitalized(Breaking) ELSE <<"n", "e", "w", "s">>,
     content |-> <<>>,
     age |-> IF id % 3 = 0 THEN 120 ELSE 10]

\* What getPosts(perPage) resolves to: the newest perPage posts, newest first
GetPosts(perPage) == [i \in 1..Min(perPage, latest) |-> PostOf(latest - i + 1)]

Ids(articles) == [i \in 1..Len(articles) |-> articles[i].id]
Range(s) == { s[i] : i \in 1..Len(s) }

\* Array.from(set).slice(-n)
SliceLast(s, n) == IF Len(s) <= n THEN s ELSE SubSeq(s, Len(s) - n + 1, Len(s))

\* A pruning that keeps what follows the first SeenKeep identifiers
PruneFromIndex(ids) ==
    IF Len(ids) > SeenThreshold THEN SubSeq(ids, SeenKeep + 1, Len(ids)) ELSE ids

\* The pruning at the end of detectNewArticles
Prune(ids) == IF Len(ids) > SeenThreshold THEN SliceLast(ids, SeenKeep) ELSE ids

\* A membership test that misses the identifier inserted last
IsNewButLast(id, ids) == \A i \in 1..(Len(ids) - 1) : ids[i] # id

\* !this.lastArticleIds.has(article.id)
IsNew(id, ids) == \A i \in 1..Len(ids) : ids[i] # id

\* A detection that does not remember what it reports
AddNothing(ids, id) == ids

\* this.lastArticleIds.add(article.id), for an identifier the set has not
SetAdd(ids, id) == Append(ids, id)

\* The forEach of detectNewArticles over articles[i..]
RECURSIVE DetectFrom(_, _, _, _)
DetectFrom(articles, i, ids, newArticles) ==
    IF i > Len(articles) THEN [ids |-> ids, newArticles |-> newArticles]
    ELSE IF IsNew(articles[i].id, ids)
         THEN DetectFrom(articles, i + 1, SetAdd(ids, articles[i].id),
                         Append(newArticles, articles[i]))
         ELSE DetectFrom(articles, i + 1, ids, newArticles)

\* A detection that leaves the seen-set as it found it
DetectOnly(articles, ids) ==
    [ids |-> ids, newArticles |-> DetectFrom(articles, 1, ids, <<>>).newArticles]

\* detectNewArticles: the new articles and the seen-set it leaves
DetectNewArticles(articles, ids) ==
    LET d == DetectFrom(articles, 1, ids, <<>>)
    IN [ids |-> Prune(d.ids), newArticles |-> d.newArticles]

\* notifySubscribers from subscriber i on: the registrations called, and
\* whether an exception leaves the forEach (the try/catch is per callback)
RECURSIVE NotifyFrom(_, _)
NotifyFrom(subs, i) ==
    IF i > Len(subs) THEN [called |-> <<>>, threw |-> FALSE]
    ELSE LET rest == NotifyFrom(subs, i + 1)
         IN [called |-> <<subs[i].reg>> \o rest.called, threw |-> rest.threw]

\* A forEach without the try/catch: the first callback that throws ends it
RECURSIVE NotifyUncaughtFrom(_, _)
NotifyUncaughtFrom(subs, i) ==
    IF i > Len(subs) THEN [called |-> <<>>, threw |-> FALSE]
    ELSE IF Throws(subs[i].cb) THEN [called |-> <<subs[i].reg>>, threw |-> TRUE]
         ELSE LET rest == NotifyUncaughtFrom(subs, i + 1)
              IN [called |-> <<subs[i].reg>> \o rest.called, threw |-> rest.threw]

NotifyUncaught(subs) == NotifyUncaughtFrom(subs, 1)

NotifySubscribers(subs) == NotifyFrom(subs, 1)

\* A forEach that delivers nothing
DeliverNothing(newArticles, i, subs) == [events |-> <<>>, threw |-> FALSE]

\* newArticles.forEach(article => notifySubscribers(update)) from article i on
RECURSIVE DeliverFrom(_, _, _)
DeliverFrom(newArticles, i, subs) ==
    IF i > Len(newArticles) THEN [events |-> <<>>, threw |-> FALSE]
    ELSE LET n == NotifySubscribers(subs)
             event == [article |-> newArticles[i].id,
                       type |-> DetermineUpdateType(newArticles[i]),
                       to |-> n.called]
         IN IF n.threw THEN [events |-> <<event>>, threw |-> TRUE]
            ELSE LET rest == DeliverFrom(newArticles, i + 1, subs)
                 IN [events |-> <<event>> \o rest.events, threw |-> rest.threw]

NoPoll == [outcome |-> "none", polling |-> TRUE, fetched |-> <<>>, events |-> <<>>]

RealtimeStart ==
    /\ isPolling = FALSE
    /\ subscribers = <<>>
    /\ lastArticleIds = <<>>
    /\ lastUpdateTime = "constructed"
    /\ handles = <<>>
    /\ inflight = 0
    /\ timers = 0
    /\ latest = 0
    /\ lastPoll = NoPoll
    /\ inserted = <<>>
    /\ lastStart = "none"

\* A pollForUpdates without its early return
PollUnguarded(polling) == TRUE

\* if (!this.isPolling) return;  at the head of pollForUpdates
PollGuard(polling) == polling

\* A setTimeout(...) placed inside the try block
ReschedulesOnSuccess(outcome) == outcome = "ok"

\* setTimeout(...) follows the try/catch: it runs whatever the outcome
Reschedules(outcome) == TRUE

\* A startPolling without its early return
NeverPolling(polling) == FALSE

\* if (this.isPolling) return;  at the head of startPolling
AlreadyPolling(polling) == polling

\* startPolling, with pollForUpdates up to its await
StartPolling ==
    /\ IF AlreadyPolling(isPolling)
       THEN /\ lastStart' = "ignored"
            /\ UNCHANGED <<isPolling, subscribers, lastArticleIds, lastUpdateTime,
                           handles, inflight, timers, latest, lastPoll, inserted>>
       ELSE /\ inflight + timers < MaxChains
            /\ lastStart' = "started"
            /\ isPolling' = TRUE
            /\ inflight' = IF PollGuard(TRUE) THEN inflight + 1 ELSE inflight
            /\ UNCHANGED <<subscribers, lastArticleIds, lastUpdateTime, handles,
                           timers, latest, lastPoll, inserted>>
    /\ UNCHANGED notRealtimeVars

StopPolling ==
    /\ isPolling' = FALSE
    /\ UNCHANGED <<subscribers, lastArticleIds, lastUpdateTime, handles,
                   inflight, timers, latest, lastPoll, inserted>>
    /\ UNCHANGED notRealtimeVars
    /\ UNCHANGED lastStart

\* A timer fires: pollForUpdates up to its await, or its early return
TimerFire ==
    /\ timers > 0
    /\ timers' = timers - 1
    /\ IF PollGuard(isPolling)
       THEN /\ inflight' = inflight + 1
            /\ UNCHANGED lastPoll
       ELSE /\ lastPoll' = [outcome |-> "skipped", polling |-> isPolling,
                            fetched |-> <<>>, events |-> <<>>]
            /\ UNCHANGED inflight
    /\ UNCHANGED <<isPolling, subscribers, lastArticleIds, lastUpdateTime, handles,
                   latest, inserted>>
    /\ UNCHANGED notRealtimeVars
    /\ UNCHANGED lastStart

\* getPosts resolved: the rest of pollForUpdates
PollResolve ==
    /\ inflight > 0
    /\ LET articles == GetPosts(PollCount)
           d == DetectNewArticles(articles, lastArticleIds)
           del == DeliverFrom(d.newArticles, 1, subscribers)
           outcome == IF del.threw THEN "failed" ELSE "ok"
       IN /\ lastArticleIds' = d.ids
          /\ lastUpdateTime' = IF del.threw THEN lastUpdateTime ELSE "polled"
          /\ lastPoll' = [outcome |-> outcome, polling |-> isPolling,
                          fetched |-> Ids(articles), events |-> del.events]
          /\ timers' = IF Reschedules(outcome) THEN timers + 1 ELSE timers
          /\ inserted' = inserted \o Ids(d.newArticles)
    /\ inflight' = inflight - 1
    /\ UNCHANGED <<isPolling, subscribers, handles, latest>>
    /\ UNCHANGED notRealtimeVars
    /\ UNCHANGED lastStart

\* getPosts rejected: the catch branch of pollForUpdates
PollReject ==
    /\ inflight > 0
    /\ lastPoll' = [outcome |-> "failed", polling |-> isPolling,
                    fetched |-> <<>>, events |-> <<>>]
    /\ timers' = IF Reschedules("failed") THEN timers + 1 ELSE timers
    /\ inflight' = inflight - 1
    /\ UNCHANGED <<isPolling, subscribers, lastArticleIds, lastUpdateTime, handles,
                   latest, inserted>>
    /\ UNCHANGED notRealtimeVars
    /\ UNCHANGED lastStart

\* subscribe(callback): the registration is tagged with the handle returned for it
Subscribe(cb) ==
    /\ Len(handles) < MaxSubs
    /\ subscribers' = Append(subscribers, [cb |-> cb, reg |-> Len(handles) + 1])
    /\ handles' = Append(handles, cb)
    /\ UNCHANGED <<isPolling, lastArticleIds, lastUpdateTime, inflight, timers,
                   latest, lastPoll, inserted>>
    /\ UNCHANGED notRealtimeVars
    /\ UNCHANGED lastStart

\* this.subscribers.indexOf(callback): the first position holding it, 0 if none
IndexOf(subs, cb) ==
    IF \E i \in 1..Len(subs) : subs[i].cb = cb
    THEN CHOOSE i \in 1..Len(subs) :
            subs[i].cb = cb /\ \A j \in 1..(i - 1) : subs[j].cb # cb
    ELSE 0

\* The closure subscribe returned as handle h is called
Unsubscribe(h) ==
    /\ LET index == IndexOf(subscribers, handles[h])
       IN subscribers' = IF index > 0 THEN RemoveAt(subscribers, index) ELSE subscribers
    /\ UNCHANGED <<isPolling, lastArticleIds, lastUpdateTime, handles, inflight, timers,
                   latest, lastPoll, inserted>>
    /\ UNCHANGED notRealtimeVars
    /\ UNCHANGED lastStart

\* The content source publishes a post
Publish ==
    /\ latest < MaxPosts
    /\ latest' = latest + 1
    /\ UNCHANGED <<isPolling, subscribers, lastArticleIds, lastUpdateTime, handles,
                   inflight, timers, lastPoll, inserted>>
    /\ UNCHANGED notRealtimeVars
    /\ UNCHANGED lastStart

\* The content source publishes the next post once the poller has seen
\* the previous one
AllPolled == latest = 0 \/ ~IsNew(latest, lastArticleIds)

PublishNext ==
    /\ AllPolled
    /\ latest < MaxSeenPosts
    /\ latest' = latest + 1
    /\ UNCHANGED <<isPolling, subscribers, lastArticleIds, lastUpdateTime, handles,
                   inflight, timers, lastPoll, inserted>>
    /\ UNCHANGED notRealtimeVars
    /\ UNCHANGED lastStart

\* The content source publishes BurstSize posts between two polls
PublishBurst ==
    /\ AllPolled
    /\ latest >= QuietPosts
    /\ latest + BurstSize <= MaxSeenPosts
    /\ latest' = latest + BurstSize
    /\ UNCHANGED <<isPolling, subscribers, lastArticleIds, lastUpdateTime, handles,
                   inflight, timers, lastPoll, inserted>>
    /\ UNCHANGED notRealtimeVars
    /\ UNCHANGED lastStart

----------------------------------------------------------------------------
(* RealtimeService.notifySubscribers: callbacks that call unsubscribe handles *)

\* What a callback does with the event: plan[reg] is the handle the callback
\* registered as reg calls while the event is delivered to it, 0 for none
Plans == [1..MaxSubs -> 0..MaxSubs]

NoNotify == [start |-> <<>>, called |-> <<>>, handlesCalled |-> {}]

NotifyStart == lastNotify = NoNotify

\* The body of the handle of callback cb: indexOf, then splice(index, 1)
Splice(subs, cb) ==
    LET index == IndexOf(subs, cb)
    IN IF index > 0 THEN RemoveAt(subs, index) ELSE subs

\* Array.prototype.forEach reads the array it walks, as it is now
Live(subs, start, k) == subs

\* this.subscribers.forEach(callback => ...) from index k (from 0) on: the
\* length is read once, an index the array no longer has is passed over,
\* and the callback called can call a handle
RECURSIVE ForEachFrom(_, _, _, _, _, _)
ForEachFrom(subs, start, k, plan, hs, called) ==
    LET walked == Live(subs, start, k)
    IN IF k >= Len(start) THEN [subs |-> subs, called |-> called]
       ELSE IF k >= Len(walked)
            THEN ForEachFrom(subs, start, k + 1, plan, hs, called)
            ELSE LET reg == walked[k + 1].reg
                     h == plan[reg]
                     after == IF h \in 1..Len(hs) THEN Splice(subs, hs[h]) ELSE subs
                 IN ForEachFrom(after, start, k + 1, plan, hs, Append(called, reg))

\* notifySubscribers(update) with callbacks that follow the plan
NotifyReentrant(plan) ==
    /\ subscribers # <<>>
    /\ LET r == ForEachFrom(subscribers, subscribers, 0, plan, handles, <<>>)
       IN /\ subscribers' = r.subs
          /\ lastNotify' =
                [start |-> [i \in 1..Len(subscribers) |-> subscribers[i].reg],
                 called |-> r.called,
                 handlesCalled |-> { plan[r.called[i]] : i \in 1..Len(r.called) }
                                      \cap (1..Len(handles))]
    /\ UNCHANGED <<isPolling, lastArticleIds, lastUpdateTime, handles, inflight, timers,
                   latest, lastPoll, inserted, lastStart>>
    /\ UNCHANGED notNotifyVars

NotifyNext ==
    \/ \E cb \in Callbacks : Subscribe(cb)
    \/ \E h \in 1..Len(handles) : Unsubscribe(h)
    \/ \E plan \in Plans : NotifyReentrant(plan)

----------------------------------------------------------------------------
(* WordPressService.getPosts: the category constraint *)

IsDigit(c) == c \in {"0", "1", "2", "3", "4", "5", "6", "7", "8", "9"}

\* The string without its leading white space
RECURSIVE TrimStart(_)
TrimStart(s) == IF Len(s) > 0 /\ s[1] = " " THEN TrimStart(Tail(s)) ELSE s

\* The longest prefix of s made of digits
RECURSIVE LeadingDigits(_)
LeadingDigits(s) ==
    IF Len(s) > 0 /\ IsDigit(s[1]) THEN <<s[1]>> \o LeadingDigits(Tail(s)) ELSE <<>>

\* parseInt(s) of JavaScript, radix 10: white space is skipped, a sign is
\* read, then the digits up to the first character that is none; NaN if
\* there is no digit
ParseIntJs(s) ==
    LET t == TrimStart(s)
        signed == Len(t) > 0 /\ t[1] \in {"-", "+"}
        digits == LeadingDigits(IF signed THEN Tail(t) ELSE t)
    IN IF digits = <<>> THEN [nan |-> TRUE]
       ELSE [nan |-> FALSE,
             value |-> IF signed /\ t[1] = "-" THEN 0 - ParseInt(digits)
                       ELSE ParseInt(digits)]

\* `${n}` of an integer
IntToString(n) == IF n < 0 THEN <<"-">> \o NumberToString(0 - n) ELSE NumberToString(n)

\* ids.join(',')
RECURSIVE Join(_)
Join(ids) ==
    IF Len(ids) = 0 THEN <<>>
    ELSE IF Len(ids) = 1 THEN NumberToString(ids[1])
    ELSE NumberToString(ids[1]) \o <<",">> \o Join(Tail(ids))

FeaturedAll == <<"f", "e", "a", "t", "u", "r", "e", "d", "-", "a", "l", "l">>
SportsAll == <<"s", "p", "o", "r", "t", "s", "-", "a", "l", "l">>

FeaturedCategoryIds ==
    <<33629, 33654, 33557, 34697, 25233, 33635, 31250, 35316, 27012, 33641,
      33627, 33660, 32014>>

SportsCategoryIds ==
    <<34638, 34690, 14222, 34596, 34598, 34594, 34601, 34609, 34615, 34667,
      34666, 34634, 34617, 34607, 34608, 34600, 34602, 34603>>

\* The category arguments the screens pass: none, the two aggregate tokens,
\* identifiers, slugs, and slugs and texts that begin with digits
SevenQuestions == <<"7", "-", "q", "u", "e", "s", "t", "i", "o", "n", "s">>

CategorySlugs ==
    { <<>>, FeaturedAll, SportsAll,
      <<"7">>, <<"3", "3", "6", "2", "9">>,
      <<"l", "o", "c", "a", "l">>, <<"s", "p", "o", "r", "t", "s">>,
      SevenQuestions, <<"4", "h">>, <<"a", "7">> }

\* What getCategoryId resolves to: the id of the first match (LookedUpId), or null when
\* the response is not 2xx, holds no category, or the fetch throws
LookedUpId == 33629

CategoryIdOutcomes == {"found", "nomatch", "status", "network"}

GetCategoryId(outcome) == IF outcome = "found" THEN LookedUpId ELSE 0

\* How the posts request ends: 2xx, another status, a network error, an
\* error whose message names CORS
PostsOutcomes == {"ok", "status", "network", "cors"}

NoConstraint == <<>>

NoRun == [stage |-> "none"]

\* getPosts is not running
WordpressStart == getPostsRun = NoRun

\* A screen calls getPosts(perPage, categorySlug)
WordpressInit ==
    getPostsRun \in [stage : {"called"}, categorySlug : CategorySlugs,
                     perPage : {PollCount, 20}]

\* !isNaN(categoryId): the argument is taken to be a category id
IsCategoryId(parsed) == ~parsed.nan

\* getPosts up to its first await: the slug lookup, or the posts request
GetPostsCall ==
    /\ getPostsRun.stage = "called"
    /\ LET categorySlug == getPostsRun.categorySlug
           categoryId == ParseIntJs(categorySlug)
           Fetch(categories) ==
               getPostsRun @@ [categories |-> categories, lookup |-> "notcalled"]
       IN getPostsRun' =
            IF categorySlug = <<>>
            THEN [Fetch(NoConstraint) EXCEPT !.stage = "fetch"]
            ELSE IF categorySlug = FeaturedAll
            THEN [Fetch(Join(FeaturedCategoryIds)) EXCEPT !.stage = "fetch"]
            ELSE IF categorySlug = SportsAll
            THEN [Fetch(Join(SportsCategoryIds)) EXCEPT !.stage = "fetch"]
            ELSE IF IsCategoryId(categoryId)
            THEN [Fetch(IntToString(categoryId.value)) EXCEPT !.stage = "fetch"]
            ELSE [getPostsRun EXCEPT !.stage = "lookup"]
    /\ UNCHANGED notWordpressVars

\* getCategoryId settled: getPosts goes on to the posts request
CategoryIdSettle(outcome) ==
    /\ getPostsRun.stage = "lookup"
    /\ LET fetchedCategoryId == GetCategoryId(outcome)
       IN getPostsRun' =
            [getPostsRun EXCEPT !.stage = "fetch"]
              @@ [lookup |-> outcome,
                  categories |-> IF fetchedCategoryId # 0
                                 THEN IntToString(fetchedCategoryId)
                                 ELSE NoConstraint]
    /\ UNCHANGED notWordpressVars

\* The posts request settled: getPosts returns the posts, or the mock posts
\* after a CORS error, or rejects
PostsSettle(outcome) ==
    /\ getPostsRun.stage = "fetch"
    /\ getPostsRun' =
         [getPostsRun EXCEPT !.stage = "done"]
           @@ [result |-> CASE outcome = "ok" -> "posts"
                            [] outcome = "cors" -> "mock posts"
                            [] OTHER -> "rejected"]
    /\ UNCHANGED notWordpressVars

WordpressNext ==
    \/ GetPostsCall
    \/ \E outcome \in CategoryIdOutcomes : CategoryIdSettle(outcome)
    \/ \E outcome \in PostsOutcomes : PostsSettle(outcome)

----------------------------------------------------------------------------
(* StoryImage: the candidate URLs of an image *)

\* A URL is a string; the empty string is a missing source_url.
\* getImageUrl returns null for a missing image.
Null == "null"
Falsy(url) == url = "" \/ url = Null

\* No image prop; media_details without sizes
NoImage == [none |-> TRUE]
NoSizes == <<[undefined |-> TRUE]>>

\* The tiers the component reads by name, in the order it appends them
TierOrder == <<"thumbnail", "medium", "woocommerce_thumbnail", "medium_large",
               "large", "full">>
\* The tiers it puts first on the web
WebTiers == <<"thumbnail", "medium", "woocommerce_thumbnail">>

\* The tier names the images of the model use
TierNames == <<"thumbnail", "medium", "large", "full", "medium_large",
               "woocommerce_thumbnail">>
Names == { TierNames[i] : i \in 1..Min(MaxTiers, Len(TierNames)) }

\* Pixel widths of the tiers, and the target widths of the component: no
\* width (0), a width a tier can match exactly, and one whose 1.5-fold is
\* just above the widest tier
Widths == {150, 400, 650}
Targets == {0, 400, 434}

\* The original URL of an image, if it has one
Originals == {"", "o"}

\* A tier: its own URL is its name, or it is the file of the original
Tiers == { t \in [name : Names, source_url : Names \cup {"o"}, width : Widths] :
             t.source_url \in {t.name, "o"} }

\* media_details.sizes, in the order of its keys: absent, or up to MaxTiers
\* tiers of different names
SizesOfLen(n) ==
    { s \in [1..n -> Tiers] : \A i, j \in 1..n : s[i].name = s[j].name => i = j }

AllSizes == {NoSizes} \cup UNION { SizesOfLen(n) : n \in 0..MaxTiers }

Images == [source_url : Originals, sizes : AllSizes]

\* sizes?.<name>?.source_url : the URL of the tier of that name, "" if none
TierUrl(sizes, name) ==
    IF sizes # NoSizes /\ \E i \in 1..Len(sizes) : sizes[i].name = name
    THEN LET i == CHOOSE i \in 1..Len(sizes) : sizes[i].name = name
         IN sizes[i].source_url
    ELSE ""

\* if (sizes?.<name>?.source_url) urls.push(...), for names[i..] in turn
RECURSIVE PushTiers(_, _, _)
PushTiers(sizes, names, i) ==
    IF i > Len(names) THEN <<>>
    ELSE LET url == TierUrl(sizes, names[i])
         IN (IF Falsy(url) THEN <<>> ELSE <<url>>) \o PushTiers(sizes, names, i + 1)

\* [...new Set(urls)]: the first occurrence of every URL, in order
Unique(urls) ==
    LET first == { i \in 1..Len(urls) : \A j \in 1..(i - 1) : urls[j] # urls[i] }
        Pos(k) == CHOOSE i \in first : Cardinality({ j \in first : j <= i }) = k
    IN [k \in 1..Cardinality(first) |-> urls[Pos(k)]]

\* Object.values(sizes).filter(size => size.source_url)
AvailableSizes(sizes) == SelectSeq(sizes, LAMBDA size : ~Falsy(size.source_url))

Abs(n) == IF n < 0 THEN -n ELSE n

\* A reducer that lets the later of two equally close tiers win
CloserOrEqual(best, current, target) ==
    IF Abs(current.width - target) <= Abs(best.width - target) THEN current ELSE best

\* The reducer of getImageUrl: currentDiff < bestDiff ? current : best
Closer(best, current, target) ==
    IF Abs(current.width - target) < Abs(best.width - target) THEN current ELSE best

\* availableSizes.reduce(...) without an initial value, from element i on,
\* for a non-empty availableSizes
RECURSIVE ReduceFrom(_, _, _, _)
ReduceFrom(available, i, best, target) ==
    IF i > Len(available) THEN best
    ELSE ReduceFrom(available, i + 1, Closer(best, available[i], target), target)

BestSize(available, target) == ReduceFrom(available, 2, available[1], target)

\* bestSize.width <= targetWidth * 1.5
Admits(size, target) == 2 * size.width <= 3 * target

\* getImageUrl: its local values and what it returns. Reducing an empty
\* array without an initial value raises a TypeError.
GetImageUrl(img, target, os) ==
    IF img = NoImage
    THEN [raised |-> FALSE, imageUrl |-> Null]
    ELSE LET sizes == img.sizes
             originalUrl == img.source_url
             web == IF os = "web" THEN PushTiers(sizes, WebTiers, 1) ELSE <<>>
             byWidth == target # 0 /\ sizes # NoSizes
             available == IF byWidth THEN AvailableSizes(sizes) ELSE <<>>
         IN IF byWidth /\ available = <<>>
            THEN [raised |-> TRUE]
            ELSE LET bestSize == IF byWidth THEN BestSize(available, target) ELSE NoSizes
                     closest == IF byWidth /\ Admits(bestSize, target)
                                THEN <<bestSize.source_url>> ELSE <<>>
                     urlOptions == web \o closest \o PushTiers(sizes, TierOrder, 1)
                                      \o <<originalUrl>>
                     uniqueUrls == Unique(urlOptions)
                 IN [raised |-> FALSE, bestSize |-> bestSize, closest |-> closest,
                     urlOptions |-> urlOptions, uniqueUrls |-> uniqueUrls,
                     imageUrl |-> IF Falsy(uniqueUrls[1]) THEN originalUrl
                                  ELSE uniqueUrls[1]]

\* getAllUrls: the list the component walks
GetAllUrls(img) ==
    IF img = NoImage THEN <<>>
    ELSE Unique(PushTiers(img.sizes, TierOrder, 1)
                  \o (IF Falsy(img.source_url) THEN <<>> ELSE <<img.source_url>>))

\* No timer is pending; no <Image> element is mounted
NoTimeout == [armed |-> FALSE]
NoNative == [phase |-> "none"]

\* useState(true), useState(false), useState(0), useState(!lazyLoad),
\* useState(null), useState(0)
HooksStart(lazyLoad) ==
    /\ loading = TRUE
    /\ error = FALSE
    /\ retryCount = 0
    /\ isVisible = ~lazyLoad
    /\ currentImageUrl = Null
    /\ urlIndex = 0
    /\ shown = [none |-> TRUE]
    /\ timeout = NoTimeout
    /\ native = NoNative

NotRendered == [raised |-> FALSE, imageUrl |-> Null, allUrls |-> <<>>, none |-> TRUE]

\* No StoryImage is mounted
ImageStart ==
    /\ image = NoImage
    /\ targetWidth = 0
    /\ platformOS = "ios"
    /\ rendered = NotRendered
    /\ HooksStart(TRUE)

\* A StoryImage is given an image, a width and a platform
ResolveInit ==
    /\ image \in Images
    /\ targetWidth \in Targets
    /\ platformOS \in {"web", "ios"}
    /\ rendered = NotRendered
    /\ HooksStart(TRUE)

\* The component function runs: lines 94-118. An exception in getImageUrl
\* ends it before getAllUrls.
Resolve ==
    /\ rendered = NotRendered
    /\ LET r == GetImageUrl(image, targetWidth, platformOS)
       IN rendered' = IF r.raised THEN r ELSE r @@ [allUrls |-> GetAllUrls(image)]
    /\ UNCHANGED <<image, targetWidth, platformOS, loading, error, retryCount,
                   isVisible, currentImageUrl, urlIndex, shown, timeout, native>>
    /\ UNCHANGED notImageVars

----------------------------------------------------------------------------
(* StoryImage: loading the candidates one after the other *)

\* React keeps the state of the component (the six useState values).  A
\* handler sees the values of the run of the component function that
\* created it (shown); what it sets is in force at once for the updater
\* functions (prev => prev + 1) and reaches the handlers with the next run.
\* React runs the component function and its effects after the handler has
\* returned; an event that is due can be handled before that.

\* The useState values
Hooks ==
    [loading |-> loading, error |-> error, retryCount |-> retryCount,
     isVisible |-> isVisible, currentImageUrl |-> currentImageUrl,
     urlIndex |-> urlIndex]

\* allUrls[i] of JavaScript: undefined past the end
Undefined == "undefined"
At(urls, i) == IF i < Len(urls) THEN urls[i + 1] ELSE Undefined

\* The images a screen hands to the component: none, one without any URL,
\* one with the original only, one whose sizes object is empty, and those
\* with the first n tiers
FirstTiers(n) ==
    [i \in 1..n |-> [name |-> TierNames[i], source_url |-> TierNames[i], width |-> 400]]

ComponentImages ==
    { NoImage,
      [source_url |-> "", sizes |-> NoSizes],
      [source_url |-> "o", sizes |-> NoSizes],
      [source_url |-> "o", sizes |-> <<>>] }
      \cup { [source_url |-> "o", sizes |-> FirstTiers(n)] : n \in 1..MaxTiers }

\* A screen mounts a StoryImage
StoryImageInit ==
    /\ image \in ComponentImages
    /\ targetWidth = 400
    /\ platformOS \in {"web", "ios"}
    /\ rendered = NotRendered
    /\ \E lazyLoad \in BOOLEAN : HooksStart(lazyLoad)

\* The <Image> element is part of what the run returned (lines 207-275)
ImageMounted(r, v) ==
    /\ ~Falsy(r.imageUrl)
    /\ ~v.error
    /\ v.isVisible
    /\ ~Falsy(v.currentImageUrl) /\ v.currentImageUrl # Undefined

\* The component function runs and React commits what it returned, then
\* runs the effects whose dependencies changed:
\*   lines 159-163  setCurrentImageUrl(allUrls[urlIndex])
\*   lines 166-178  the 5 s timeout, armed with the handleError of this run
Render ==
    /\ ~rendered.raised
    /\ rendered = NotRendered \/ shown # Hooks
    /\ LET r == GetImageUrl(image, targetWidth, platformOS)
           allUrls == GetAllUrls(image)
           first == rendered = NotRendered
           depsChanged == \/ first
                          \/ shown.loading # loading
                          \/ shown.currentImageUrl # currentImageUrl
       IN IF r.raised
          THEN /\ rendered' = r
               /\ UNCHANGED <<shown, currentImageUrl, timeout, native>>
          ELSE /\ rendered' = r @@ [allUrls |-> allUrls]
               /\ shown' = Hooks
               /\ currentImageUrl' = IF isVisible /\ Len(allUrls) > 0
                                     THEN At(allUrls, urlIndex)
                                     ELSE currentImageUrl
               /\ timeout' = IF ~depsChanged THEN timeout
                             ELSE IF loading /\ ~Falsy(currentImageUrl)
                                     /\ currentImageUrl # Undefined
                                  THEN [armed |-> TRUE, urlIndex |-> urlIndex]
                                  ELSE NoTimeout
               /\ native' = IF ~ImageMounted(r, Hooks) THEN NoNative
                            ELSE IF native # NoNative /\ native.uri = currentImageUrl
                                 THEN native
                                 ELSE [phase |-> "new", uri |-> currentImageUrl]
    /\ UNCHANGED <<image, targetWidth, platformOS, loading, error, retryCount,
                   isVisible, urlIndex>>
    /\ UNCHANGED notImageVars

\* The lazy-loading effect (lines 126-156): at once off the web, when the
\* image comes into view on the web
BecomeVisible ==
    /\ rendered # NotRendered /\ ~rendered.raised
    /\ ~isVisible
    /\ isVisible' = TRUE
    /\ UNCHANGED <<image, targetWidth, platformOS, rendered, loading, error,
                   retryCount, currentImageUrl, urlIndex, shown, timeout, native>>
    /\ UNCHANGED notImageVars

\* The urlIndex handleError reads: the one of the run that created it
ClosureIndex(seen, current) == seen

\* handleError, created by a run that saw urlIndex = seen
HandleError(seen) ==
    IF ClosureIndex(seen, urlIndex) < Len(rendered.allUrls) - 1
    THEN /\ urlIndex' = urlIndex + 1
         /\ loading' = TRUE
         /\ error' = FALSE
    ELSE /\ loading' = FALSE
         /\ error' = TRUE
         /\ UNCHANGED urlIndex

\* onLoadStart: handleLoadStart
LoadStart ==
    /\ native.phase = "new"
    /\ native' = [native EXCEPT !.phase = "started"]
    /\ loading' = TRUE
    /\ error' = FALSE
    /\ UNCHANGED <<image, targetWidth, platformOS, rendered, retryCount, isVisible,
                   currentImageUrl, urlIndex, shown, timeout>>
    /\ UNCHANGED notImageVars

\* The image has loaded: onLoadEnd, handleLoadEnd
LoadSuccess ==
    /\ native.phase = "started"
    /\ native' = [native EXCEPT !.phase = "ended"]
    /\ loading' = FALSE
    /\ UNCHANGED <<image, targetWidth, platformOS, rendered, error, retryCount,
                   isVisible, currentImageUrl, urlIndex, shown, timeout>>
    /\ UNCHANGED notImageVars

\* The image failed to load: onError, the handleError of the run shown
LoadError ==
    /\ native.phase = "started"
    /\ native' = [native EXCEPT !.phase = "failed"]
    /\ HandleError(shown.urlIndex)
    /\ UNCHANGED <<image, targetWidth, platformOS, rendered, retryCount, isVisible,
                   currentImageUrl, shown, timeout>>
    /\ UNCHANGED notImageVars

\* onLoadEnd after a failure
LoadEndAfterError ==
    /\ native.phase = "failed"
    /\ native' = [native EXCEPT !.phase = "ended"]
    /\ loading' = FALSE
    /\ UNCHANGED <<image, targetWidth, platformOS, rendered, error, retryCount,
                   isVisible, currentImageUrl, urlIndex, shown, timeout>>
    /\ UNCHANGED notImageVars

\* The 5 s timer fires: the handleError of the run that armed it
Timeout ==
    /\ timeout.armed
    /\ timeout' = NoTimeout
    /\ HandleError(timeout.urlIndex)
    /\ UNCHANGED <<image, targetWidth, platformOS, rendered, retryCount, isVisible,
                   currentImageUrl, shown, native>>
    /\ UNCHANGED notImageVars

\* The Retry button, shown with the placeholder while retryCount < 2.  A
\* press is a discrete event: React has run the component function again
\* before the next press is handled.
RetryLimit == 2

HandleRetry ==
    /\ shown # [none |-> TRUE]
    /\ shown.error /\ shown.retryCount < RetryLimit
    /\ shown.retryCount = retryCount
    /\ error' = FALSE
    /\ loading' = TRUE
    /\ retryCount' = retryCount + 1
    /\ urlIndex' = 0
    /\ UNCHANGED <<image, targetWidth, platformOS, rendered, isVisible,
                   currentImageUrl, shown, timeout, native>>
    /\ UNCHANGED notImageVars

StoryImageNext ==
    \/ Render
    \/ BecomeVisible
    \/ LoadStart
    \/ LoadSuccess
    \/ LoadError
    \/ LoadEndAfterError
    \/ Timeout
    \/ HandleRetry

----------------------------------------------------------------------------
(* HomeScreen: the posts of the selected category *)

\* Categories of DualCategoryTabs, by id
DefaultCategory == "all"
Categories == {DefaultCategory, "3", "sports-all"}

UpdateTypes == {"new_article", "breaking_news", "updated_article"}

\* useState([]), useState(true), useState(false), useState(null),
\* useState(DEFAULT_CATEGORY), useState(''), useState(1), useState(true),
\* useState(false)
HomeStart ==
    /\ home = [mounted |-> FALSE, posts |-> <<>>, loading |-> TRUE,
               refreshing |-> FALSE, error |-> Null,
               selectedCategory |-> DefaultCategory, realtimeStatus |-> "",
               page |-> 1, hasMorePosts |-> TRUE, loadingMore |-> FALSE]
    /\ postsRequests = <<>>

\* loadPosts up to `await getPosts(10, category.id, pageNum)`
LoadPosts(h, category, pageNum, append, refresh) ==
    /\ Len(postsRequests) < MaxLoads
    /\ home' = [h EXCEPT !.error = Null]
    /\ postsRequests' = Append(postsRequests,
                               [category |-> category, page |-> pageNum,
                                append |-> append, refresh |-> refresh])

\* The effect that runs once, after the first render: its subscriber keeps
\* the selectedCategory of that render
HomeMount ==
    /\ ~home.mounted
    /\ LoadPosts([home EXCEPT !.mounted = TRUE], DefaultCategory, 1, FALSE, FALSE)
    /\ UNCHANGED notHomeVars

\* The selectedCategory the subscriber of the effect reads
SubscriberCategory(selected) == DefaultCategory

\* The subscriber of the effect receives an update
OnRealtimeUpdate(type) ==
    /\ home.mounted
    /\ home.realtimeStatus # type
    /\ LET h == [home EXCEPT !.realtimeStatus = type]
       IN IF type \in {"new_article", "breaking_news"}
          THEN LoadPosts(h, SubscriberCategory(home.selectedCategory), 1, FALSE, FALSE)
          ELSE home' = h /\ UNCHANGED postsRequests
    /\ UNCHANGED notHomeVars

OnRefresh ==
    /\ home.mounted
    /\ ~home.refreshing
    /\ LoadPosts([home EXCEPT !.refreshing = TRUE], home.selectedCategory, 1, FALSE, TRUE)
    /\ UNCHANGED notHomeVars

HandleCategorySelect(category) ==
    /\ home.mounted
    /\ LoadPosts([home EXCEPT !.selectedCategory = category, !.loading = TRUE, !.page = 1],
                 category, 1, FALSE, FALSE)
    /\ UNCHANGED notHomeVars

LoadMorePosts ==
    /\ home.mounted
    /\ ~(home.loadingMore \/ ~home.hasMorePosts)
    /\ home.page < MaxPage
    /\ Len(home.posts) + Cardinality({ i \in 1..Len(postsRequests) : postsRequests[i].append })
          < MaxPage
    /\ LoadPosts([home EXCEPT !.loadingMore = TRUE, !.page = home.page + 1],
                 home.selectedCategory, home.page + 1, TRUE, FALSE)
    /\ UNCHANGED notHomeVars

\* setPosts(prev => [...prev, ...fetchedPosts]) or setPosts(fetchedPosts)
SetPosts(posts, call, fetched) ==
    IF call.append THEN posts \o <<fetched>> ELSE <<fetched>>

\* getPosts resolved: the rest of loadPosts, then of onRefresh. The posts
\* fetched are those of the category and the page requested; there are 10
\* of them or fewer.
LoadPostsResolve(i, full) ==
    /\ LET call == postsRequests[i]
           fetched == [category |-> call.category, page |-> call.page]
       IN home' = [home EXCEPT
                     !.posts = SetPosts(home.posts, call, fetched),
                     !.hasMorePosts = full,
                     !.loading = FALSE,
                     !.loadingMore = FALSE,
                     !.refreshing = IF call.refresh THEN FALSE ELSE @]
    /\ postsRequests' = RemoveAt(postsRequests, i)
    /\ UNCHANGED notHomeVars

\* getPosts rejected: the catch branch of loadPosts
LoadPostsReject(i) ==
    /\ home' = [home EXCEPT
                  !.error = "Failed to load news. Please try again.",
                  !.loading = FALSE,
                  !.loadingMore = FALSE,
                  !.refreshing = IF postsRequests[i].refresh THEN FALSE ELSE @]
    /\ postsRequests' = RemoveAt(postsRequests, i)
    /\ UNCHANGED notHomeVars

HomeNext ==
    \/ HomeMount
    \/ \E type \in UpdateTypes : OnRealtimeUpdate(type)
    \/ OnRefresh
    \/ \E category \in Categories : HandleCategorySelect(category)
    \/ LoadMorePosts
    \/ \E i \in 1..Len(postsRequests) : \E full \in BOOLEAN : LoadPostsResolve(i, full)
    \/ \E i \in 1..Len(postsRequests) : LoadPostsReject(i)

----------------------------------------------------------------------------
(* ArchiveScreen: the stories displayed *)

\* The category and the search text of the screen select one of the filters
ScreenFilter(s) == Filter(s.selectedCategory, s.searchQuery, 10)

\* useState([]), useState(true), useState(false), useState(''),
\* useState(''), useState(0), useState(true), useState(1)
ScreenStart ==
    /\ archiveScreen = [mounted |-> FALSE, stories |-> <<>>, loading |-> TRUE,
                        loadingMore |-> FALSE, searchQuery |-> <<>>,
                        selectedCategory |-> <<>>, totalStories |-> 0,
                        hasMore |-> TRUE, page |-> 1]
    /\ storiesCalls = <<>>

\* setStories(prev => [...prev, ...result.stories]) or setStories(result.stories)
SetStories(stories, append, result) ==
    IF append THEN stories \o result.stories ELSE result.stories

\* loadStories after `await archiveService.getStories(options)`
StoriesLoaded(s, append, result) ==
    [s EXCEPT !.stories = SetStories(s.stories, append, result),
              !.page = IF append THEN @ ELSE 1,
              !.totalStories = result.total,
              !.hasMore = result.hasMore,
              !.loading = FALSE,
              !.loadingMore = FALSE]

\* loadStories(append), called with the state s: setLoading, setLoadingMore,
\* then getStories. A hit resolves before any other event is handled; a
\* miss leaves the call suspended on the request.
LoadStories(s, append) ==
    LET f == ScreenFilter(s)
        waiting == [s EXCEPT !.loading = ~append, !.loadingMore = append]
    IN /\ GetStories(f)
       /\ IF CacheKey(f) \in DOMAIN cachedStories
          THEN /\ archiveScreen' =
                     StoriesLoaded(waiting, append,
                                   HitResult(cachedStories[CacheKey(f)], totalStories))
               /\ UNCHANGED storiesCalls
          ELSE /\ archiveScreen' = waiting
               /\ storiesCalls' = Append(storiesCalls, [append |-> append])

\* The first render: the effect of lines 61-63 runs
ScreenMount ==
    /\ ~archiveScreen.mounted
    /\ LoadStories([archiveScreen EXCEPT !.mounted = TRUE], FALSE)
    /\ UNCHANGED notScreenVars

\* handleSearch, then the effect that depends on searchQuery
HandleSearch(query) ==
    /\ archiveScreen.mounted
    /\ query # archiveScreen.searchQuery
    /\ LoadStories([archiveScreen EXCEPT !.searchQuery = query], FALSE)
    /\ UNCHANGED notScreenVars

\* handleCategoryPress, then the effect that depends on selectedCategory
HandleCategoryPress(categoryId) ==
    /\ archiveScreen.mounted
    /\ categoryId # archiveScreen.selectedCategory
    /\ LoadStories([archiveScreen EXCEPT !.selectedCategory = categoryId], FALSE)
    /\ UNCHANGED notScreenVars

\* The Load More button
LoadMoreStories ==
    /\ archiveScreen.mounted
    /\ ~(archiveScreen.loadingMore \/ ~archiveScreen.hasMore)
    /\ LoadStories([archiveScreen EXCEPT !.page = @ + 1], TRUE)
    /\ UNCHANGED notScreenVars

\* The request of call i is answered: the rest of getStories, then of
\* loadStories
StoriesResolve(i, r) ==
    /\ StoriesFetched(i, r)
    /\ archiveScreen' = StoriesLoaded(archiveScreen, storiesCalls[i].append, FetchedResult(r))
    /\ storiesCalls' = RemoveAt(storiesCalls, i)
    /\ UNCHANGED notScreenVars

\* The request of call i fails: getStories returns its empty result
StoriesFail(i, cause) ==
    /\ StoriesFailed(i, cause)
    /\ archiveScreen' = StoriesLoaded(archiveScreen, storiesCalls[i].append,
                                      GetStoriesCatch(cause))
    /\ storiesCalls' = RemoveAt(storiesCalls, i)
    /\ UNCHANGED notScreenVars

ScreenNext ==
    \/ ScreenMount
    \/ \E f \in Filters : HandleSearch(f.search)
    \/ \E f \in Filters : HandleCategoryPress(f.category)
    \/ LoadMoreStories
    \/ \E i \in 1..Len(storiesCalls) : \E r \in Responses : StoriesResolve(i, r)
    \/ \E i \in 1..Len(storiesCalls) : \E cause \in Failures : StoriesFail(i, cause)

----------------------------------------------------------------------------
(* AnalyticsService.trackArticleView and the screens that call it *)

\* The articles of a list, by id
ArticleIds == {1, 2}

\* Math.max(0, Math.min(100, progress)) at three scroll positions
Progresses == {0, 50, 100}

NoDetail == [open |-> FALSE]

ViewStart ==
    /\ articleViews = EmptyMap
    /\ detail = NoDetail
    /\ presses = [id \in ArticleIds |-> 0]

\* trackArticleView: existing.views += 1, or a new record with views: 1
TrackArticleView(views, id) ==
    IF id \in DOMAIN views
    THEN [views EXCEPT ![id].views = @ + 1]
    ELSE MapSet(views, id, [views |-> 1, completionRate |-> Null])

\* trackArticleReadTime: sets the completion rate of a record that exists
TrackArticleReadTime(views, id, completionRate) ==
    IF id \in DOMAIN views
    THEN [views EXCEPT ![id].completionRate = completionRate]
    ELSE views

\* handleArticlePress of HomeScreen, handleStoryPress of ArchiveScreen:
\* trackArticleView, then navigate to the detail screen
HandleArticlePress(id) ==
    /\ ~detail.open
    /\ presses[1] + presses[2] < MaxPresses
    /\ presses' = [presses EXCEPT ![id] = @ + 1]
    /\ articleViews' = TrackArticleView(articleViews, id)
    /\ detail' = [open |-> TRUE, article |-> id, mounted |-> FALSE,
                  scrollProgress |-> 0, scrolls |-> 0]
    /\ UNCHANGED notViewVars

\* The detail screen is shown: its effect runs for the first time
DetailMount ==
    /\ detail.open /\ ~detail.mounted
    /\ articleViews' = TrackArticleView(articleViews, detail.article)
    /\ detail' = [detail EXCEPT !.mounted = TRUE]
    /\ UNCHANGED presses
    /\ UNCHANGED notViewVars

\* The effect has scrollProgress among its dependencies: it runs again when
\* the value has changed
EffectRunsAgain(before, after) == before # after

\* handleScroll, the render it causes, and the effect: its cleanup reports
\* the progress of the render it belongs to, then its body runs
HandleScroll(progress) ==
    /\ detail.open /\ detail.mounted
    /\ detail.scrolls < MaxScrolls
    /\ detail' = [detail EXCEPT !.scrollProgress = progress, !.scrolls = @ + 1]
    /\ articleViews' =
          IF EffectRunsAgain(detail.scrollProgress, progress)
          THEN TrackArticleView(
                  TrackArticleReadTime(articleViews, detail.article, detail.scrollProgress),
                  detail.article)
          ELSE articleViews
    /\ UNCHANGED presses
    /\ UNCHANGED notViewVars

\* The detail screen is closed: the cleanup of the effect
DetailClose ==
    /\ detail.open /\ detail.mounted
    /\ articleViews' = TrackArticleReadTime(articleViews, detail.article,
                                            detail.scrollProgress)
    /\ detail' = NoDetail
    /\ UNCHANGED presses
    /\ UNCHANGED notViewVars

ViewNext ==
    \/ \E id \in ArticleIds : HandleArticlePress(id)
    \/ DetailMount
    \/ \E progress \in Progresses : HandleScroll(progress)
    \/ DetailClose

----------------------------------------------------------------------------
(* RealtimeService.checkForUpdates and reset *)

\* wordpressService.getPosts(20) in checkForUpdates
CheckCount == 20

NoCheck == [outcome |-> "none", returned |-> <<>>]

CheckStart ==
    /\ checks = 0
    /\ lastCheck = NoCheck
    /\ wasReset = FALSE

\* checkForUpdates up to its await
CheckForUpdates ==
    /\ checks < MaxChecks
    /\ checks' = checks + 1
    /\ UNCHANGED <<lastCheck, wasReset>>
    /\ UNCHANGED realtimeVars
    /\ UNCHANGED notCheckVars

\* getPosts resolved: the rest of checkForUpdates. The updates go to the
\* caller; notifySubscribers is not called.
CheckResolve ==
    /\ checks > 0
    /\ checks' = checks - 1
    /\ LET articles == GetPosts(CheckCount)
           d == DetectNewArticles(articles, lastArticleIds)
       IN /\ lastArticleIds' = d.ids
          /\ inserted' = inserted \o Ids(d.newArticles)
          /\ lastCheck' = [outcome |-> "ok",
                           returned |-> [i \in 1..Len(d.newArticles) |->
                                           [article |-> d.newArticles[i].id,
                                            type |-> DetermineUpdateType(d.newArticles[i])]]]
    /\ UNCHANGED wasReset
    /\ UNCHANGED <<isPolling, subscribers, lastUpdateTime, handles, inflight, timers,
                   latest, lastPoll, lastStart>>
    /\ UNCHANGED notCheckVars

\* getPosts rejected: the catch branch returns no update
CheckReject ==
    /\ checks > 0
    /\ checks' = checks - 1
    /\ lastCheck' = [outcome |-> "failed", returned |-> <<>>]
    /\ UNCHANGED wasReset
    /\ UNCHANGED realtimeVars
    /\ UNCHANGED notCheckVars

\* reset(): stopPolling, then the seen-set and the subscribers are emptied.
\* Fetches in flight and pending timers are left alone.
Reset ==
    /\ wasReset' = TRUE
    /\ isPolling' = FALSE
    /\ lastArticleIds' = <<>>
    /\ subscribers' = <<>>
    /\ lastUpdateTime' = "reset"
    /\ inserted' = <<>>
    /\ UNCHANGED <<handles, inflight, timers, latest, lastPoll, lastStart>>
    /\ UNCHANGED <<checks, lastCheck>>
    /\ UNCHANGED notCheckVars

\* A subscriber whose callback returns normally
Listener == "f"

UpdatesNext ==
    \/ StartPolling
    \/ TimerFire
    \/ PollResolve
    \/ Subscribe(Listener)
    \/ Publish
    \/ CheckForUpdates
    \/ CheckResolve
    \/ Reset

----------------------------------------------------------------------------
(* Specifications *)

Init ==
    /\ ArchiveStart /\ RealtimeStart /\ ImageStart /\ ClassifyStart /\ WordpressStart
    /\ NotifyStart
    /\ CheckStart
    /\ ViewStart
    /\ ScreenStart
    /\ HomeStart

ArchiveNext ==
    \/ \E f \in Filters : GetStoriesCall(f)
    \/ \E i \in 1..Len(pending) : \E r \in Responses : FetchStoriesOk(i, r)
    \/ \E i \in 1..Len(pending) : \E cause \in Failures : FetchStoriesFail(i, cause)
    \/ ClearCache

RealtimeNext ==
    \/ StartPolling
    \/ StopPolling
    \/ TimerFire
    \/ PollResolve
    \/ PollReject
    \/ \E cb \in Callbacks : Subscribe(cb)
    \/ \E h \in 1..Len(handles) : Unsubscribe(h)
    \/ Publish

\* The two services share no state: each is explored on its own, the other
\* one staying as constructed.

\* The result cache under any interleaving of calls, completions and clears
ArchiveSpec == Init /\ [][ArchiveNext]_vars

\* The poller under any interleaving of its operations, timers and fetches
RealtimeSpec == Init /\ [][RealtimeNext]_vars

\* The same, with the event loop firing every timer that is due
RealtimeFairSpec == RealtimeSpec /\ WF_vars(TimerFire)

SeenNext ==
    \/ StartPolling
    \/ TimerFire
    \/ PollResolve
    \/ PublishNext
    \/ PublishBurst

\* One poll chain running against a content source that keeps publishing,
\* long enough for the seen-set to be pruned
SeenSpec == Init /\ [][SeenNext]_vars

\* Only this component runs: the others stay as constructed
ResolveOnly ==
    /\ ArchiveStart /\ RealtimeStart /\ ClassifyStart /\ WordpressStart /\ ResolveInit
    /\ NotifyStart
    /\ CheckStart
    /\ ViewStart
    /\ ScreenStart
    /\ HomeStart

\* The resolution of every image of the model, for every target width, on
\* every platform
ResolveSpec == ResolveOnly /\ [][Resolve]_vars

\* Only this component runs: the others stay as constructed
ClassifyOnly ==
    /\ ArchiveStart /\ RealtimeStart /\ ImageStart /\ WordpressStart /\ ClassifyInit
    /\ NotifyStart
    /\ CheckStart
    /\ ViewStart
    /\ ScreenStart
    /\ HomeStart

\* The classification of every article of the model
ClassifySpec == ClassifyOnly /\ [][Classify]_vars

\* Only this component runs: the others stay as constructed
WordpressOnly ==
    /\ ArchiveStart /\ RealtimeStart /\ ImageStart /\ ClassifyStart /\ WordpressInit
    /\ NotifyStart
    /\ CheckStart
    /\ ViewStart
    /\ ScreenStart
    /\ HomeStart

\* Every getPosts call of the model, under every outcome of its requests
WordpressSpec == WordpressOnly /\ [][WordpressNext]_vars

\* Only this component runs: the others stay as constructed
StoryImageOnly ==
    /\ ArchiveStart /\ RealtimeStart /\ ClassifyStart /\ WordpressStart /\ StoryImageInit
    /\ NotifyStart
    /\ CheckStart
    /\ ViewStart
    /\ ScreenStart
    /\ HomeStart

\* One StoryImage from its mount on, under any interleaving of the events
\* of its <Image> element, its timer, the Retry button and React's runs of
\* the component function
StoryImageSpec == StoryImageOnly /\ [][StoryImageNext]_vars

\* The subscriber list under deliveries to callbacks that call handles
NotifySpec == Init /\ [][NotifyNext]_vars

\* The home screen under any interleaving of presses, realtime updates and
\* settling requests
HomeSpec == Init /\ [][HomeNext]_vars

\* The archive screen and the result cache behind it
ScreenSpec == Init /\ [][ScreenNext]_vars

\* Articles opened from a list, read and closed
ViewSpec == Init /\ [][ViewNext]_vars

\* The poller together with manual checks and resets
UpdatesSpec == Init /\ [][UpdatesNext]_vars

\* The whole program
Next ==
    \/ ArchiveNext \/ RealtimeNext \/ Resolve \/ StoryImageNext \/ Classify
    \/ WordpressNext \/ NotifyNext \/ HomeNext \/ ScreenNext \/ ViewNext \/ UpdatesNext
    \/ CheckReject

Spec == Init /\ [][Next]_vars

----------------------------------------------------------------------------
(* The result cache: C1, C3, C5 *)

C3_HitReturnsPopulatedResult ==
    lastReturn.how = "hit" => lastReturn.result = lastReturn.entry.result

\* C5: two filters use the same cache entry only if their six fields are
\* equal: a hit for a filter reads an entry populated by a fetch for that
\* same filter.
C5_EntrySharedOnlyByEqualFilters ==
    lastReturn.how = "hit" => lastReturn.entry.filter = lastReturn.filter

----------------------------------------------------------------------------
(* The poller's lifecycle: C2, C9, C10 *)

\* C2: the poller has at most one live poll cycle at any time: one fetch in
\* flight or one pending timer, never two.
C2_AtMostOneLiveCycle == inflight + timers <= 1

\* C9: between a stopPolling and the next startPolling no fetch is issued: no
\* step that starts and ends in Stopped adds a fetch in flight, a pending
\* timer that fires included.
C9_NoFetchWhileStopped ==
    [][(~isPolling /\ ~isPolling') => inflight' <= inflight]_vars

\* A timer that was pending at the stop has fired and polled nothing
C9_Witness ==
    /\ ~isPolling
    /\ lastPoll.outcome = "skipped"
    /\ inflight = 0
    /\ timers = 0

\* C10: every poll that ends, by a resolved or a rejected fetch, schedules
\* the next one, and while the poller is Polling with no fetch in flight a
\* fetch is eventually started unless stopPolling is called.
C10_PollAlwaysRescheduled ==
    /\ [][(PollResolve \/ PollReject) => timers' = timers + 1]_vars
    /\ ((isPolling /\ inflight = 0) ~> (inflight > 0 \/ ~isPolling))

\* The poll that followed a failed poll is in flight
C10_Witness ==
    /\ isPolling
    /\ lastPoll.outcome = "failed"
    /\ inflight = 1
    /\ timers = 0

----------------------------------------------------------------------------
(* The seen-set: C4 *)

\* The last n elements of s
MostRecent(s, n) == [i \in 1..n |-> s[Len(s) - n + i]]

----------------------------------------------------------------------------
(* The subscribers: C6, C7, C8 *)

Regs(subs) == [i \in 1..Len(subs) |-> subs[i].reg]

\* C6: calling the unsubscribe handle of a registration removes exactly that
\* registration, if it is still there, and leaves the others in place and in
\* order, however often it is called.
C6_UnsubscribeRemovesOwnRegistration ==
    [][\A h \in 1..Len(handles) :
          Unsubscribe(h)
             => subscribers' = SelectSeq(subscribers, LAMBDA r : r.reg # h)]_vars

\* The fetched identifiers that are not in the seen-set, in fetch order
Fresh(fetched, ids) == SelectSeq(fetched, LAMBDA id : id \notin Range(ids))

----------------------------------------------------------------------------
(* The result cache, failures and clearCache: C11, C12 *)

\* C11: a getStories call whose fetch fails (network error, non-2xx status
\* or undecodable body) does not reject: it returns no stories, total 0 and
\* hasMore false.
C11_FailedFetchReturnsEmpty ==
    lastReturn.how = "failed"
       => lastReturn.result = [stories |-> <<>>, total |-> 0, hasMore |-> FALSE]

\* A fetch has failed while the cache held an entry and a positive total
C11_Witness ==
    /\ lastReturn.how = "failed"
    /\ cachedStories # EmptyMap
    /\ totalStories > 0

\* C12: clearCache leaves the cache with no entry and the total counter at
\* 0, and the next getStories call for a filter whose entry the clear
\* dropped is a miss that issues a new request.
C12_ClearedFilterMissesNext ==
    /\ [][ClearCache => (cachedStories' = EmptyMap /\ totalStories' = 0)]_vars
    /\ [][\A f \in Filters :
            (GetStoriesCall(f) /\ CacheKey(f) \in dropped)
               => /\ lastCall'.outcome = "miss"
                  /\ requests'[f] = requests[f] + 1]_vars

----------------------------------------------------------------------------
(* The candidate URLs of an image: C13, C14, C20 *)

NoDuplicates(urls) == \A i, j \in 1..Len(urls) : urls[i] = urls[j] => i = j

\* The image has a tier with a URL
HasSizedVariant(img) == img.sizes # NoSizes /\ AvailableSizes(img.sizes) # <<>>

\* The component function has run for an image
Resolved == image # NoImage /\ rendered # NotRendered

\* C13: the candidate list resolved for an image holds no URL twice; for an
\* image without a sized variant it is the original URL alone; for every
\* image with an original URL it is not empty.
C13_CandidatesUniqueEndingInOriginal ==
    Resolved
       => /\ ~rendered.raised
          /\ NoDuplicates(rendered.uniqueUrls)
          /\ NoDuplicates(rendered.allUrls)
          /\ image.source_url # ""
                => /\ rendered.uniqueUrls # <<>>
                   /\ rendered.allUrls # <<>>
                   /\ ~HasSizedVariant(image)
                         => /\ rendered.uniqueUrls = <<image.source_url>>
                            /\ rendered.allUrls = <<image.source_url>>

\* C14: with a target width and an available tier of exactly that width,
\* the URL of such a tier is the first candidate, on every platform.
C14_ExactWidthTierFirst ==
    (Resolved /\ targetWidth # 0 /\ HasSizedVariant(image))
       => LET available == AvailableSizes(image.sizes)
              exact == { i \in 1..Len(available) : available[i].width = targetWidth }
          IN exact # {}
               => /\ ~rendered.raised
                  /\ \E i \in exact :
                        /\ rendered.uniqueUrls[1] = available[i].source_url
                        /\ rendered.allUrls[1] = available[i].source_url

\* C20: with a target width, the tier chosen by width is the available tier
\* whose width differs least from the target, the first such tier in the
\* order of the sizes, and its URL is put on the list only if its width is
\* at most 1.5 times the target.
C20_ClosestTierWithinOneAndAHalf ==
    (Resolved /\ targetWidth # 0 /\ HasSizedVariant(image))
       => LET available == AvailableSizes(image.sizes)
              Diff(i) == Abs(available[i].width - targetWidth)
          IN /\ ~rendered.raised
             /\ \E i \in 1..Len(available) :
                   /\ rendered.bestSize = available[i]
                   /\ \A j \in 1..Len(available) : Diff(j) >= Diff(i)
                   /\ \A j \in 1..(i - 1) : Diff(j) > Diff(i)
                   /\ rendered.closest =
                         IF 2 * available[i].width <= 3 * targetWidth
                         THEN <<available[i].source_url>> ELSE <<>>

\* Two tiers equally far from the target: the first was chosen and admitted
C20_Witness ==
    /\ Resolved
    /\ targetWidth = 400
    /\ image.sizes # NoSizes
    /\ Len(image.sizes) = 2
    /\ image.sizes[1].width = 150
    /\ image.sizes[2].width = 650
    /\ ~rendered.raised
    /\ rendered.closest = <<image.sizes[1].source_url>>

----------------------------------------------------------------------------
(* The update type: C15 *)

\* The text holds the keyword at some position, in any letter case
Contains(text, keyword) ==
    \E i \in 1..Len(text) :
       /\ i + Len(keyword) - 1 <= Len(text)
       /\ \A j \in 1..Len(keyword) :
             text[i + j - 1] \in {keyword[j], UpperChar(keyword[j])}

HasKeyword(a) ==
    \E text \in {a.title, a.content} :
       Contains(text, Breaking) \/ Contains(text, Urgent)

\* C15: a new item is breaking_news if its title or body contains
\* 'breaking' or 'urgent' in any letter case, whatever its publish time;
\* otherwise new_article if it was published less than an hour ago;
\* otherwise updated_article.
C15_UpdateTypeByKeywordThenAge ==
    updateType # "none"
       => updateType = IF HasKeyword(article) THEN "breaking_news"
                       ELSE IF article.age < 60 THEN "new_article"
                       ELSE "updated_article"

\* An article published two hours ago whose body says URGENT is breaking news
C15_Witness ==
    /\ updateType = "breaking_news"
    /\ article.age = 120
    /\ article.title = <<"n", "e", "w", "s">>
    /\ article.content = <<"a", " ", "U", "R", "G", "E", "N", "T", " ", "z">>

----------------------------------------------------------------------------
(* The poller, starting twice and stopping in mid-poll: C16, C17 *)

\* C16: startPolling called while the poller is Polling starts no fetch and
\* no timer and leaves the state of the poller as it is.
C16_StartWhilePollingIsNoOp ==
    [][(isPolling /\ StartPolling)
         => UNCHANGED <<isPolling, subscribers, lastArticleIds, lastUpdateTime,
                        inflight, timers>>]_vars

\* startPolling was called, and ignored, while the first fetch was in flight
C16_Witness ==
    /\ lastStart = "ignored"
    /\ isPolling
    /\ inflight = 1
    /\ timers = 0
    /\ lastPoll = NoPoll

----------------------------------------------------------------------------
(* The category constraint of getPosts: C18 *)

\* The string is the decimal notation of a non-negative integer
IsInteger(s) == Len(s) > 0 /\ \A i \in 1..Len(s) : IsDigit(s[i])

\* C18: the categories parameter of the posts request follows the four
\* steps: none for the empty argument; the fixed id list for an aggregate
\* token; the argument itself if it is an integer; for any other string,
\* one that begins with digits included, the id the slug lookup found, and
\* none if the lookup found nothing or failed, in which case getPosts does
\* not fail for that reason.
C18_CategoryFollowsFourSteps ==
    getPostsRun.stage \in {"fetch", "done"}
       => LET slug == getPostsRun.categorySlug
          IN IF slug = <<>>
             THEN getPostsRun.categories = NoConstraint
             ELSE IF slug = FeaturedAll
             THEN getPostsRun.categories = Join(FeaturedCategoryIds)
             ELSE IF slug = SportsAll
             THEN getPostsRun.categories = Join(SportsCategoryIds)
             ELSE IF IsInteger(slug)
             THEN getPostsRun.categories = slug /\ getPostsRun.lookup = "notcalled"
             ELSE /\ getPostsRun.lookup \in CategoryIdOutcomes
                  /\ getPostsRun.categories =
                        IF getPostsRun.lookup = "found"
                        THEN NumberToString(LookedUpId) ELSE NoConstraint

----------------------------------------------------------------------------
(* StoryImage walks its candidates: C19 *)

\* The URL the <Image> element of a run loads: none before the first run
\* and while the element is not part of what the run returned
Loads(v) ==
    IF v = [none |-> TRUE] \/ rendered = NotRendered \/ rendered.raised THEN Null
    ELSE IF ImageMounted(rendered, v) THEN v.currentImageUrl
    ELSE Null

\* C19: the component loads the candidates of allUrls in list order: while
\* Retry is not pressed, the URL given to <Image> changes from one candidate
\* to the next one of the list only, none being skipped, and the error state
\* is entered only when the candidate being loaded is the last one.
C19_WalksCandidatesInOrder ==
    [][/\ (/\ shown # [none |-> TRUE]
           /\ shown'.retryCount = shown.retryCount
           /\ ~Falsy(shown.currentImageUrl)
           /\ shown'.currentImageUrl # shown.currentImageUrl)
          => \E k \in 1..(Len(rendered.allUrls) - 1) :
                /\ shown.currentImageUrl = rendered.allUrls[k]
                /\ shown'.currentImageUrl = rendered.allUrls[k + 1]
       /\ (~error /\ error')
          => Loads(shown) = rendered.allUrls[Len(rendered.allUrls)]]_vars

----------------------------------------------------------------------------
(* Image resolution terminates with a result: C21 *)

\* C21: the resolution of an image returns a result and raises nothing, for
\* every image and every target width, an image whose sizes object holds no
\* tier included.
C21_ResolveNeverRaises == Resolved => ~rendered.raised

----------------------------------------------------------------------------
(* Unsubscribing while an event is delivered: C22 *)

Count(s, x) == Cardinality({ i \in 1..Len(s) : s[i] = x })

\* C22: when callbacks call unsubscribe handles while an event is delivered,
\* every subscriber registered when the delivery started whose own handle
\* was not called receives the event exactly once.
C22_OthersReceiveEventOnce ==
    \A i \in 1..Len(lastNotify.start) :
       lastNotify.start[i] \notin lastNotify.handlesCalled
          => Count(lastNotify.called, lastNotify.start[i]) = 1

----------------------------------------------------------------------------
(* A fetch in flight when the cache is cleared: C23 *)

\* clearCache has run and no getStories call has issued a request since:
\* the request counts are those clearCache left (a call that hits issues
\* none, and needs an entry in the cache)
ClearedAndNoCallSince == started > 0 /\ \A f \in Filters : requests[f] = 0

\* C23: after clearCache, as long as no getStories call is started, the
\* cache has no entry and the total counter is 0, whatever fetches were in
\* flight when the cache was cleared.
C23_ClearedCacheStaysEmpty ==
    ClearedAndNoCallSince => (cachedStories = EmptyMap /\ totalStories = 0)

----------------------------------------------------------------------------
(* A failed fetch and the cache: C29 *)

\* A suspended getStories call returns through its catch branch
FailedReturn == Len(pending') < Len(pending) /\ lastReturn'.how = "failed"

\* C29: a getStories call whose fetch fails stores no entry, leaves every
\* entry as it was and leaves the total counter alone; the next call for its
\* filter, with no entry under its key, is a miss that issues a request.
C29_FailedFetchLeavesCacheUnchanged ==
    /\ [][FailedReturn
             => /\ cachedStories' = cachedStories
                /\ totalStories' = totalStories
                /\ populated' = populated]_vars
    /\ [][\A f \in Filters :
            (/\ GetStoriesCall(f)
             /\ lastReturn.how = "failed" /\ lastReturn.filter = f
             /\ CacheKey(f) \notin DOMAIN cachedStories)
               => /\ lastCall'.outcome = "miss"
                  /\ requests'[f] = requests[f] + 1
                  /\ Len(pending') = Len(pending) + 1]_vars

\* Next to an entry of another filter, a fetch has failed and a call for its
\* filter has fetched again
C29_Witness ==
    /\ lastReturn.how = "failed"
    /\ cachedStories # EmptyMap
    /\ totalStories > 0
    /\ CacheKey(lastReturn.filter) \notin DOMAIN cachedStories
    /\ lastCall.outcome = "miss" /\ lastCall.filter = lastReturn.filter
    /\ requests[lastReturn.filter] = 2
    /\ Len(pending) = 1

----------------------------------------------------------------------------
(* The posts shown are those of the selected category: C24 *)

\* C24: once every getPosts request of the home screen has settled, and
\* none has left an error, the posts displayed are the result of a request
\* for the category selected last.
C24_PostsOfSelectedCategory ==
    (home.mounted /\ postsRequests = <<>> /\ home.error = Null)
       => \A i \in 1..Len(home.posts) :
             home.posts[i].category = home.selectedCategory

----------------------------------------------------------------------------
(* Load More on the archive screen: C25 *)

\* C25: whatever the presses on Load More, the stories displayed hold no
\* story identifier twice and are no more than the total reported.
C25_LoadMoreAppendsOnlyNewStories ==
    archiveScreen.mounted
       => /\ NoDuplicates(archiveScreen.stories)
          /\ Len(archiveScreen.stories) <= archiveScreen.totalStories

----------------------------------------------------------------------------
(* One view per opening: C26 *)

\* The views recorded for an article
ViewsOf(id) == IF id \in DOMAIN articleViews THEN articleViews[id].views ELSE 0

\* C26: with no detail screen open, the views recorded for an article are
\* the times it was opened: every opening (press, screen shown, scrolled,
\* closed) has added exactly 1.
C26_OneViewPerOpening ==
    ~detail.open => \A id \in ArticleIds : ViewsOf(id) = presses[id]

\* The identifiers a poll cycle reported as events, a check as its return value
Reported(updates) == [i \in 1..Len(updates) |-> updates[i].article]

\* A pollForUpdates call passes its await, a checkForUpdates call returns
PollSettles == inflight' < inflight
CheckSettles == checks' < checks

\* An identifier is reported only if the seen-set did not hold it, and the
\* seen-set holds it from then on
ReportedOnce(ids) ==
    /\ \A i \in 1..Len(ids) : IsNew(ids[i], lastArticleIds) /\ ~IsNew(ids[i], lastArticleIds')
    /\ \A i, j \in 1..Len(ids) : ids[i] = ids[j] => i = j

\* C27: an article identifier is reported as new, as a poll event or in the
\* return value of checkForUpdates, at most once while the seen-set holds it,
\* whatever the interleaving of poll cycles and manual checks: whoever reports
\* it finds it absent from the seen-set and leaves it there, and it leaves the
\* seen-set only by a prune or by reset().
C27_ReportedOnceWhileSeen ==
    [][/\ PollSettles => ReportedOnce(Reported(lastPoll'.events))
       /\ CheckSettles => ReportedOnce(Reported(lastCheck'.returned))
       /\ (\E id \in Range(lastArticleIds) : IsNew(id, lastArticleIds'))
             => (wasReset' /\ lastArticleIds' = <<>>) \/ Len(lastArticleIds') = SeenKeep]_vars

\* A poll cycle reported post 1, and a later check that fetched posts 2 and 1
\* returned post 2 alone
C27_Witness ==
    /\ ~wasReset
    /\ Reported(lastPoll.events) = <<1>>
    /\ lastCheck.outcome = "ok"
    /\ Reported(lastCheck.returned) = <<2>>

\* C28: checkForUpdates hands its updates to its caller only: it calls no
\* subscriber and leaves the subscriber list alone, but the identifiers it
\* returns are in the seen-set shared with the poller when it returns, and a
\* poll cycle emits no event for an identifier the seen-set holds.
C28_CheckReturnsToCallerOnly ==
    [][/\ CheckSettles =>
            /\ lastPoll' = lastPoll
            /\ subscribers' = subscribers
            /\ \A i \in 1..Len(lastCheck'.returned) :
                  ~IsNew(lastCheck'.returned[i].article, lastArticleIds')
       /\ PollSettles =>
            \A i \in 1..Len(lastPoll'.events) :
               IsNew(lastPoll'.events[i].article, lastArticleIds)]_vars

\* With a subscriber registered, a check returned a post, and the poll cycle
\* that fetched the post afterwards emitted no event for it
C28_Witness ==
    /\ ~wasReset
    /\ subscribers # <<>>
    /\ lastCheck.outcome = "ok"
    /\ lastCheck.returned # <<>>
    /\ lastPoll.outcome = "ok"
    /\ \A i \in 1..Len(lastCheck.returned) :
          /\ lastCheck.returned[i].article \in Range(lastPoll.fetched)
          /\ lastCheck.returned[i].article \notin Range(Reported(lastPoll.events))

----------------------------------------------------------------------------
(* The candidate index stays inside the candidate list: C30 *)

\* The component function has run and the candidate list is not empty
HasCandidates ==
    /\ rendered # NotRendered
    /\ ~rendered.raised
    /\ rendered.allUrls # <<>>

\* C30: whenever the candidate list is non-empty, urlIndex is the index of
\* one of its candidates (0 <= urlIndex < allUrls.length), whatever the order
\* of load errors, the loading timeout and Retry presses; and a Retry press
\* sets urlIndex to 0.
C30_IndexWithinCandidates ==
    /\ [](HasCandidates => (0 <= urlIndex /\ urlIndex < Len(rendered.allUrls)))
    /\ [][retryCount' # retryCount => urlIndex' = 0]_vars

====
